---- MODULE Spec2Model ----
(***************************************************************************)
(* SyncCow (src/src/lib.rs): a clone-on-write container with two slots     *)
(* (red, green), each a raw pointer to a Box<Arc<T>> and a counter of the  *)
(* readers that are cloning through it, an indicator `latest` naming the   *)
(* slot readers consult, and a mutex serialising the writers.              *)
(*                                                                         *)
(* Every atomic operation of read() and edit() is one action; threads      *)
(* interleave at that grain, and the atomic operations are taken in one    *)
(* total order.  The payload T is an integer and every edit_fn is          *)
(* `*x += 1`, as in src/src/tests.rs; edit_fn may panic instead.           *)
(* A reader thread holds at most one Arc at a time.                        *)
(***************************************************************************)
EXTENDS Integers, FiniteSets

\* ------------------------------------------------------------------ bounds
NumReaders == 2
NumWriters == 2
MaxEdits == 3

\* ------------------------------------------------------- program constants
RED == 0
GREEN == 1
V0 == 5

Readers == 1..NumReaders
Writers == 1..NumWriters
Slots == {RED, GREEN}
\* Heap cells: new() allocates two, every edit that reaches its clone one more.
Obj == 1..(2 + MaxEdits)
NoObj == 0
NoWriter == 0

VARIABLES
    \* struct SyncCow
    latest,     \* latest: AtomicUsize
    ptr,        \* atomic_red.0 / atomic_green.0 : slot -> heap cell
    cnt,        \* atomic_red.1 / atomic_green.1 : slot -> readers cloning
    lock,       \* write_lock: the writer holding it, or NoWriter
    poisoned,   \* write_lock's poison flag
    dropped,    \* the container has been dropped
    \* heap: one cell is a Box<Arc<T>> together with the Arc's allocation
    nobj,       \* cells allocated so far
    val,        \* cell -> the T inside
    fnst,       \* cell -> "none" | "running" | "done": edit_fn on this cell
    strong,     \* cell -> the Arc's strong count; 0 once the T is destroyed
    boxLive,    \* cell -> the Box (the container's owning Arc) is not freed
    ub,         \* a freed Box was dereferenced or freed again
    \* read(): per reader thread
    rpc, rl, rp, arc, held,
    \* edit(): per writer thread
    wpc, wl, wnew, wold,
    \* history
    started,    \* edit calls made so far
    edits,      \* edit calls that have returned
    rstart,     \* reader -> edits returned when its read took its first step
    seen,       \* reader -> cells that were active during its read; once it
                \* has returned, the returned cell if it is one of them
    rpois,      \* reader -> its read took its first step after a failed edit
    last,       \* reader -> last_read of the test's reader loop: the value
                \* its previous read returned (0 before the first)
    from,       \* cell -> the value its T was cloned from
    pre         \* latest and the slot pointers when the lock was last taken

shared == <<latest, ptr, cnt, lock, poisoned, dropped>>
heap == <<nobj, val, fnst, strong, boxLive, ub>>
rvars == <<rpc, rl, rp, arc, held>>
wvars == <<wpc, wl, wnew, wold>>
hist == <<started, edits, rstart, seen, rpois, last, from, pre>>
vars == <<shared, heap, rvars, wvars, hist>>

Other(s) == (s + 1) % 2

\* edit calls that have returned
Returned == edits

\* The slot pointer the indicator names.
Active == ptr[latest]

\* ------------------------------------------------------------ SyncCow::new
Init ==
    /\ latest = RED
    /\ ptr = [s \in Slots |-> IF s = RED THEN 1 ELSE 2]
    /\ cnt = [s \in Slots |-> 0]
    /\ lock = NoWriter
    /\ poisoned = FALSE
    /\ dropped = FALSE
    /\ nobj = 2
    /\ val = [o \in Obj |-> IF o <= 2 THEN V0 ELSE 0]
    /\ fnst = [o \in Obj |-> "none"]
    /\ strong = [o \in Obj |-> IF o <= 2 THEN 1 ELSE 0]
    /\ boxLive = [o \in Obj |-> o <= 2]
    /\ ub = FALSE
    /\ rpc = [r \in Readers |-> "idle"]
    /\ rl = [r \in Readers |-> RED]
    /\ rp = [r \in Readers |-> NoObj]
    /\ arc = [r \in Readers |-> NoObj]
    /\ held = [r \in Readers |-> NoObj]
    /\ wpc = [w \in Writers |-> "idle"]
    /\ wl = [w \in Writers |-> RED]
    /\ wnew = [w \in Writers |-> NoObj]
    /\ wold = [w \in Writers |-> NoObj]
    /\ started = 0
    /\ edits = 0
    /\ rstart = [r \in Readers |-> 0]
    /\ seen = [r \in Readers |-> {}]
    /\ rpois = [r \in Readers |-> FALSE]
    /\ last = [r \in Readers |-> 0]
    /\ from = [o \in Obj |-> IF o <= 2 THEN V0 ELSE 0]
    /\ pre = [latest |-> RED, ptr |-> [s \in Slots |-> IF s = RED THEN 1 ELSE 2]]

\* Dropping one Arc that refers to cell o: the T is destroyed at count 0.
ArcDrop(st, o) == [st EXCEPT ![o] = @ - 1]

\* Mutant of ArcClone: the reader copies the Arc without counting it.
ArcCloneUncounted(st, o) == st

\* Arc::clone of the Arc in cell o: one more strong reference.
ArcClone(st, o) == [st EXCEPT ![o] = @ + 1]

\* ----------------------------------------------------------- SyncCow::read
\* let latest = self.latest.load(Relaxed);
ReadLoadLatest(r) ==
    /\ ~dropped
    /\ rpc[r] = "idle"
    /\ held[r] = NoObj
    /\ rl' = [rl EXCEPT ![r] = latest]
    /\ rpc' = [rpc EXCEPT ![r] = "inc"]
    /\ rstart' = [rstart EXCEPT ![r] = Returned]
    /\ seen' = [seen EXCEPT ![r] = {Active}]
    /\ rpois' = [rpois EXCEPT ![r] = poisoned]
    /\ UNCHANGED <<shared, heap, rp, arc, held, wvars, started, edits, last, from, pre>>

\* Mutant of ReadFetchAdd: the reader announces itself only while no writer
\* holds write_lock.
ReadFetchAddUnderLock(r) ==
    /\ rpc[r] = "inc"
    /\ lock = NoWriter
    /\ cnt' = [cnt EXCEPT ![rl[r]] = @ + 1]
    /\ rpc' = [rpc EXCEPT ![r] = "load"]
    /\ UNCHANGED <<latest, ptr, lock, poisoned, dropped, heap, rl, rp, arc, held, wvars, hist>>

\* cnt.fetch_add(1, Relaxed);
ReadFetchAdd(r) ==
    /\ rpc[r] = "inc"
    /\ cnt' = [cnt EXCEPT ![rl[r]] = @ + 1]
    /\ rpc' = [rpc EXCEPT ![r] = "load"]
    /\ UNCHANGED <<latest, ptr, lock, poisoned, dropped, heap, rl, rp, arc, held, wvars, hist>>

\* ptr.load(Relaxed)
ReadLoadPtr(r) ==
    /\ rpc[r] = "load"
    /\ rp' = [rp EXCEPT ![r] = ptr[rl[r]]]
    /\ rpc' = [rpc EXCEPT ![r] = "clone"]
    /\ UNCHANGED <<shared, heap, rl, arc, held, wvars, hist>>

\* unsafe { &*ptr }.clone(): through a freed Box this is undefined; the Arc
\* read there may refer to any cell.
ReadCloneArc(r) ==
    /\ rpc[r] = "clone"
    /\ \E o \in 1..nobj :
        /\ boxLive[rp[r]] => o = rp[r]
        /\ arc' = [arc EXCEPT ![r] = o]
        /\ strong' = ArcClone(strong, o)
    /\ ub' = (ub \/ ~boxLive[rp[r]])
    /\ rpc' = [rpc EXCEPT ![r] = "dec"]
    /\ UNCHANGED <<shared, nobj, val, fnst, boxLive, rl, rp, held, wvars, hist>>

\* Mutant of ReadFetchSub: read returns the Arc without retracting its
\* announcement.
ReadFetchSubNoRetract(r) ==
    /\ rpc[r] = "dec"
    /\ held' = [held EXCEPT ![r] = arc[r]]
    /\ arc' = [arc EXCEPT ![r] = NoObj]
    /\ rp' = [rp EXCEPT ![r] = NoObj]
    /\ rpc' = [rpc EXCEPT ![r] = "idle"]
    /\ rl' = [rl EXCEPT ![r] = RED]
    /\ rstart' = [rstart EXCEPT ![r] = 0]
    /\ rpois' = [rpois EXCEPT ![r] = FALSE]
    /\ seen' = [seen EXCEPT ![r] = @ \cap {arc[r]}]
    /\ UNCHANGED <<shared, heap, wvars, started, edits, last, from, pre>>

\* cnt.fetch_sub(1, Relaxed); arc
\* (a usize below zero wraps; -1 stands for the wrapped value, which is not 0)
ReadFetchSub(r) ==
    /\ rpc[r] = "dec"
    /\ cnt' = [cnt EXCEPT ![rl[r]] = @ - 1]
    /\ held' = [held EXCEPT ![r] = arc[r]]
    /\ arc' = [arc EXCEPT ![r] = NoObj]
    /\ rp' = [rp EXCEPT ![r] = NoObj]
    /\ rpc' = [rpc EXCEPT ![r] = "idle"]
    /\ rl' = [rl EXCEPT ![r] = RED]
    /\ rstart' = [rstart EXCEPT ![r] = 0]
    /\ rpois' = [rpois EXCEPT ![r] = FALSE]
    /\ seen' = [seen EXCEPT ![r] = @ \cap {arc[r]}]
    /\ UNCHANGED <<latest, ptr, lock, poisoned, dropped, heap, wvars,
                   started, edits, last, from, pre>>

\* The caller drops the Arc read() gave it.
DropArc(r) ==
    /\ rpc[r] = "idle"
    /\ held[r] # NoObj
    /\ strong' = ArcDrop(strong, held[r])
    /\ held' = [held EXCEPT ![r] = NoObj]
    /\ seen' = [seen EXCEPT ![r] = {}]
    /\ UNCHANGED <<shared, nobj, val, fnst, boxLive, ub, rpc, rl, rp, arc, wvars,
                   started, edits, rstart, rpois, last, from, pre>>

\* ----------------------------------------------------------- SyncCow::edit
\* The states of edit in which the caller holds write_lock.
InLock == {"latest", "clone", "fn", "fnrun", "swap", "wait", "store", "free", "unlock"}

\* Mutant of LockFree: lock() never blocks.
LockNeverHeld == TRUE

\* self.write_lock.lock() blocks while another writer holds the mutex.
LockFree == lock = NoWriter

\* Mutant of OldSlot: edit takes the slot the indicator names as the one to
\* write.
OldSlotIsLatest(w) == wl[w]

\* old_ptr / old_cnt: the slot that is not `latest`.
OldSlot(w) == Other(wl[w])

\* Mutant of LatestSlot: edit clones the snapshot of the slot it is about to
\* overwrite.
LatestSlotIsOld(w) == Other(wl[w])

\* latest_ptr: the slot edit clones from.
LatestSlot(w) == wl[w]

\* Mutant of NewLatest: the store writes back the indicator it loaded.
NewLatestUnchanged(w) == wl[w]

\* (latest + 1) % 2
NewLatest(w) == (wl[w] + 1) % 2

\* let _lck = self.write_lock.lock().unwrap();
EditLock(w) ==
    /\ ~dropped
    /\ wpc[w] = "idle"
    /\ started < MaxEdits
    /\ LockFree
    /\ ~poisoned
    /\ lock' = w
    /\ wpc' = [wpc EXCEPT ![w] = "latest"]
    /\ started' = started + 1
    /\ pre' = [latest |-> latest, ptr |-> ptr]
    /\ UNCHANGED <<latest, ptr, cnt, poisoned, dropped, heap, rvars, wl, wnew, wold,
                   edits, rstart, seen, rpois, last, from>>

\* Mutant of EditLockPoisoned: the poison is ignored and the guard inside the
\* error is used.
EditLockIgnoresPoison(w) ==
    /\ ~dropped
    /\ wpc[w] = "idle"
    /\ started < MaxEdits
    /\ LockFree
    /\ poisoned
    /\ lock' = w
    /\ wpc' = [wpc EXCEPT ![w] = "latest"]
    /\ started' = started + 1
    /\ pre' = [latest |-> latest, ptr |-> ptr]
    /\ UNCHANGED <<latest, ptr, cnt, poisoned, dropped, heap, rvars, wl, wnew, wold,
                   edits, rstart, seen, rpois, last, from>>

\* lock() on a poisoned mutex gives Err, unwrap() panics, and the guard inside
\* the error is dropped: the call ends before anything else of edit has run.
EditLockPoisoned(w) ==
    /\ ~dropped
    /\ wpc[w] = "idle"
    /\ started < MaxEdits
    /\ LockFree
    /\ poisoned
    /\ started' = started + 1
    /\ UNCHANGED <<shared, heap, rvars, wvars, edits, rstart, seen, rpois, last, from, pre>>

\* let latest = self.latest.load(Relaxed);
EditLoadLatest(w) ==
    /\ wpc[w] = "latest"
    /\ wl' = [wl EXCEPT ![w] = latest]
    /\ wpc' = [wpc EXCEPT ![w] = "clone"]
    /\ UNCHANGED <<shared, heap, rvars, wnew, wold, hist>>

\* let mut cloned = Box::new(Arc::new(obj.as_ref().clone()));
EditClone(w) ==
    /\ wpc[w] = "clone"
    /\ LET src == ptr[LatestSlot(w)]
           o == nobj + 1
       IN /\ nobj' = o
          /\ val' = [val EXCEPT ![o] = val[src]]
          /\ fnst' = [fnst EXCEPT ![o] = "none"]
          /\ strong' = [strong EXCEPT ![o] = 1]
          /\ boxLive' = [boxLive EXCEPT ![o] = TRUE]
          /\ ub' = (ub \/ ~boxLive[src])
          /\ wnew' = [wnew EXCEPT ![w] = o]
          /\ from' = [from EXCEPT ![o] = val[src]]
    /\ wpc' = [wpc EXCEPT ![w] = "fn"]
    /\ UNCHANGED <<shared, rvars, wl, wold, started, edits, rstart, seen, rpois, last, pre>>

\* Mutant of FnTarget: edit_fn writes the shared cell it should have cloned.
FnTargetShared(w) == ptr[LatestSlot(w)]

\* The cell edit_fn gets as &mut T.
FnTarget(w) == wnew[w]

\* Mutant of EditFnBegin: the clone is put in the slot before edit_fn runs.
EditFnBeginInstalled(w) ==
    /\ wpc[w] = "fn"
    /\ fnst' = [fnst EXCEPT ![FnTarget(w)] = "running"]
    /\ ptr' = [ptr EXCEPT ![OldSlot(w)] = wnew[w]]
    /\ wpc' = [wpc EXCEPT ![w] = "fnrun"]
    /\ UNCHANGED <<latest, cnt, lock, poisoned, dropped, nobj, val, strong, boxLive, ub,
                   rvars, wl, wnew, wold, hist>>

\* edit_fn(...) is entered and starts writing its argument.
EditFnBegin(w) ==
    /\ wpc[w] = "fn"
    /\ fnst' = [fnst EXCEPT ![FnTarget(w)] = "running"]
    /\ wpc' = [wpc EXCEPT ![w] = "fnrun"]
    /\ UNCHANGED <<shared, nobj, val, strong, boxLive, ub, rvars, wl, wnew, wold, hist>>

\* edit_fn returns: *x += 1 is complete.
\* let new_ptr = Box::into_raw(cloned);
EditFnEnd(w) ==
    /\ wpc[w] = "fnrun"
    /\ val' = [val EXCEPT ![FnTarget(w)] = @ + 1]
    /\ fnst' = [fnst EXCEPT ![FnTarget(w)] = "done"]
    /\ wpc' = [wpc EXCEPT ![w] = "swap"]
    /\ UNCHANGED <<shared, nobj, strong, boxLive, ub, rvars, wl, wnew, wold, hist>>

\* Mutant of EditFnPanic: unwinding installs the clone and flips `latest`.
EditFnPanicPublishes(w) ==
    /\ wpc[w] = "fnrun"
    /\ ptr' = [ptr EXCEPT ![OldSlot(w)] = wnew[w]]
    /\ latest' = NewLatest(w)
    /\ wnew' = [wnew EXCEPT ![w] = NoObj]
    /\ poisoned' = TRUE
    /\ lock' = NoWriter
    /\ wl' = [wl EXCEPT ![w] = RED]
    /\ wpc' = [wpc EXCEPT ![w] = "idle"]
    /\ UNCHANGED <<cnt, dropped, heap, rvars, wold, hist>>

\* edit_fn panics: unwinding drops `cloned` and then `_lck`, which poisons and
\* releases the mutex; the panic leaves edit.
EditFnPanic(w) ==
    /\ wpc[w] = "fnrun"
    /\ boxLive' = [boxLive EXCEPT ![wnew[w]] = FALSE]
    /\ strong' = ArcDrop(strong, wnew[w])
    /\ wnew' = [wnew EXCEPT ![w] = NoObj]
    /\ poisoned' = TRUE
    /\ lock' = NoWriter
    /\ wl' = [wl EXCEPT ![w] = RED]
    /\ wpc' = [wpc EXCEPT ![w] = "idle"]
    /\ UNCHANGED <<latest, ptr, cnt, dropped, nobj, val, fnst, ub, rvars, wold, hist>>

\* let old_ptr = old_ptr.swap(new_ptr, Relaxed);
EditSwap(w) ==
    /\ wpc[w] = "swap"
    /\ wold' = [wold EXCEPT ![w] = ptr[OldSlot(w)]]
    /\ ptr' = [ptr EXCEPT ![OldSlot(w)] = wnew[w]]
    /\ wpc' = [wpc EXCEPT ![w] = "wait"]
    /\ UNCHANGED <<latest, cnt, lock, poisoned, dropped, heap, rvars, wl, wnew, hist>>

\* Mutant of Drained: the drain loop watches the counter of the slot the
\* indicator names instead of the slot it swapped.
DrainedOtherCounter(w) == cnt[LatestSlot(w)] = 0

\* Mutant of Drained: edit does not wait for the counter.
DrainedUnchecked(w) == TRUE

\* while old_cnt.load(Relaxed) != 0 { yield_now() }: the loop is left by a
\* load that reads 0.
Drained(w) == cnt[OldSlot(w)] = 0

EditWaitCnt(w) ==
    /\ wpc[w] = "wait"
    /\ Drained(w)
    /\ wpc' = [wpc EXCEPT ![w] = "store"]
    /\ UNCHANGED <<shared, heap, rvars, wl, wnew, wold, hist>>

\* self.latest.store((latest + 1) % 2, Relaxed);
EditStoreLatest(w) ==
    /\ wpc[w] = "store"
    /\ latest' = NewLatest(w)
    /\ wpc' = [wpc EXCEPT ![w] = "free"]
    /\ seen' = [r \in Readers |->
                  IF rpc[r] = "idle" THEN seen[r] ELSE seen[r] \cup {ptr[NewLatest(w)]}]
    /\ UNCHANGED <<ptr, cnt, lock, poisoned, dropped, heap, rvars, wl, wnew, wold,
                   started, edits, rstart, rpois, last, from, pre>>

\* let _ = unsafe { Box::from_raw(old_ptr) };  the Box and its Arc are dropped
\* here; freeing a Box that is already freed is undefined.
EditFree(w) ==
    /\ wpc[w] = "free"
    /\ boxLive' = [boxLive EXCEPT ![wold[w]] = FALSE]
    /\ strong' = IF boxLive[wold[w]] THEN ArcDrop(strong, wold[w]) ELSE strong
    /\ ub' = (ub \/ ~boxLive[wold[w]])
    /\ wpc' = [wpc EXCEPT ![w] = "unlock"]
    /\ UNCHANGED <<shared, nobj, val, fnst, rvars, wl, wnew, wold, hist>>

\* End of edit: _lck is dropped and edit returns.
EditUnlock(w) ==
    /\ wpc[w] = "unlock"
    /\ lock' = NoWriter
    /\ wnew' = [wnew EXCEPT ![w] = NoObj]
    /\ wold' = [wold EXCEPT ![w] = NoObj]
    /\ wpc' = [wpc EXCEPT ![w] = "idle"]
    /\ wl' = [wl EXCEPT ![w] = RED]
    /\ edits' = edits + 1
    /\ UNCHANGED <<latest, ptr, cnt, poisoned, dropped, heap, rvars,
                   started, rstart, seen, rpois, last, from, pre>>

\* ------------------------------------------------------- Drop for SyncCow
\* Mutant of Drop: the red slot's pointer is released twice, the green slot's
\* never.
DropRedTwice ==
    /\ ~dropped
    /\ \A r \in Readers : rpc[r] = "idle"
    /\ \A w \in Writers : wpc[w] = "idle"
    /\ boxLive' = [boxLive EXCEPT ![ptr[RED]] = FALSE]
    /\ strong' = IF boxLive[ptr[RED]] THEN ArcDrop(strong, ptr[RED]) ELSE strong
    /\ ub' = TRUE
    /\ dropped' = TRUE
    /\ UNCHANGED <<latest, ptr, cnt, lock, poisoned, nobj, val, fnst, rvars, wvars, hist>>

\* drop(&mut self) needs exclusive access: no read or edit is in progress.
\* Both slots' Boxes are freed, red first.
Drop ==
    /\ ~dropped
    /\ \A r \in Readers : rpc[r] = "idle"
    /\ \A w \in Writers : wpc[w] = "idle"
    /\ LET a == ptr[RED]
           b == ptr[GREEN]
           live1 == [boxLive EXCEPT ![a] = FALSE]
           str1 == IF boxLive[a] THEN ArcDrop(strong, a) ELSE strong
       IN /\ boxLive' = [live1 EXCEPT ![b] = FALSE]
          /\ strong' = IF live1[b] THEN ArcDrop(str1, b) ELSE str1
          /\ ub' = (ub \/ ~boxLive[a] \/ ~live1[b])
    /\ dropped' = TRUE
    /\ UNCHANGED <<latest, ptr, cnt, lock, poisoned, nobj, val, fnst, rvars, wvars, hist>>

\* ---------------------------------------------------------- specification
Next ==
    \/ \E r \in Readers : ReadLoadLatest(r)
    \/ \E r \in Readers : ReadFetchAdd(r)
    \/ \E r \in Readers : ReadLoadPtr(r)
    \/ \E r \in Readers : ReadCloneArc(r)
    \/ \E r \in Readers : ReadFetchSub(r)
    \/ \E r \in Readers : DropArc(r)
    \/ \E w \in Writers : EditLock(w)
    \/ \E w \in Writers : EditLockPoisoned(w)
    \/ \E w \in Writers : EditLoadLatest(w)
    \/ \E w \in Writers : EditClone(w)
    \/ \E w \in Writers : EditFnBegin(w)
    \/ \E w \in Writers : EditFnEnd(w)
    \/ \E w \in Writers : EditFnPanic(w)
    \/ \E w \in Writers : EditSwap(w)
    \/ \E w \in Writers : EditWaitCnt(w)
    \/ \E w \in Writers : EditStoreLatest(w)
    \/ \E w \in Writers : EditFree(w)
    \/ \E w \in Writers : EditUnlock(w)
    \/ Drop

Spec == Init /\ [][Next]_vars

\* ------------------------------------------------------------- scheduling
\* The steps that remain to a read() in progress.
ReadStep(r) ==
    ReadFetchAdd(r) \/ ReadLoadPtr(r) \/ ReadCloneArc(r) \/ ReadFetchSub(r)

\* The steps of an edit() that holds write_lock; one turn of the drain loop
\* that finds the counter non-zero changes nothing and is a stuttering step.
EditStep(w) ==
    \/ EditLoadLatest(w) \/ EditClone(w) \/ EditFnBegin(w) \/ EditFnEnd(w)
    \/ EditSwap(w) \/ EditWaitCnt(w) \/ EditStoreLatest(w) \/ EditFree(w)
    \/ EditUnlock(w)

\* Threads that are scheduled again and again: a read in progress takes its
\* remaining steps, an edit holding the lock takes its steps, edit_fn
\* included, and write_lock is granted fairly to the edits that call lock().
\* Readers may begin new reads forever, or not.
FairSpec ==
    /\ Spec
    /\ \A r \in Readers : WF_vars(ReadStep(r))
    /\ \A w \in Writers : WF_vars(EditStep(w))
    /\ \A w \in Writers : SF_vars(EditLock(w) \/ EditLockPoisoned(w))

\* -------------------------------------- tests.rs: write_and_read_alot
\* The test's writer thread: the only thread that calls edit.
TestWriter == 1

\* The reader loop of the test after read() has returned:
\*   let read = *cow_ref.read().as_ref(); ... last_read = read;
\* the temporary Arc is dropped and the value is kept in last_read.
RememberRead(r) ==
    /\ rpc[r] = "idle"
    /\ held[r] # NoObj
    /\ last' = [last EXCEPT ![r] = val[held[r]]]
    /\ strong' = ArcDrop(strong, held[r])
    /\ held' = [held EXCEPT ![r] = NoObj]
    /\ seen' = [seen EXCEPT ![r] = {}]
    /\ UNCHANGED <<shared, nobj, val, fnst, boxLive, ub, rpc, rl, rp, arc, wvars,
                   started, edits, rstart, rpois, from, pre>>

\* The test: reader threads that remember what they read, one writer whose
\* edit_fn increments and never panics.
TestNext ==
    \/ \E r \in Readers : ReadLoadLatest(r)
    \/ \E r \in Readers : ReadFetchAdd(r)
    \/ \E r \in Readers : ReadLoadPtr(r)
    \/ \E r \in Readers : ReadCloneArc(r)
    \/ \E r \in Readers : ReadFetchSub(r)
    \/ \E r \in Readers : RememberRead(r)
    \/ EditLock(TestWriter)
    \/ EditLoadLatest(TestWriter)
    \/ EditClone(TestWriter)
    \/ EditFnBegin(TestWriter)
    \/ EditFnEnd(TestWriter)
    \/ EditSwap(TestWriter)
    \/ EditWaitCnt(TestWriter)
    \/ EditStoreLatest(TestWriter)
    \/ EditFree(TestWriter)
    \/ EditUnlock(TestWriter)
    \/ Drop

TestSpec == Init /\ [][TestNext]_vars

\* ------------------------------------------------------------------ claims
\* The step by which reader r's read() returns the Arc it cloned.
ReadReturns(r) == rpc[r] = "dec" /\ rpc'[r] = "idle"

\* The Arcs reader threads hold on cell o: cloned inside read, or returned.
Handles(o) == {r \in Readers : arc[r] = o \/ held[r] = o}

\* C1: a read whose first step comes after k edit calls have returned returns
\* the value of the k-th edit or of a later one: with every edit adding 1 to
\* V0, the returned value v has V0 + k <= v <= V0 + N, N the edit calls made
\* so far; so a read begun after the last of N calls returned yields V0 + N.
C1_ReadAfterEditSeesIt ==
    [][\A r \in Readers : ReadReturns(r) =>
          /\ val[arc[r]] >= V0 + rstart[r]
          /\ val[arc[r]] <= V0 + started]_vars

\* A read begun after the first edit returned is about to return the value
\* of the second edit.
C1_Witness ==
    \E r \in Readers : rpc[r] = "dec" /\ rstart[r] = 1 /\ val[arc[r]] = V0 + 2

C3_ReadReturnsActive ==
    \A r \in Readers : held[r] # NoObj => held[r] \in seen[r]

\* C4: at most one edit is between taking and releasing write_lock, and when
\* no edit call is in progress the active value is V0 plus the number of
\* edit calls that have returned.
C4_NoLostUpdate ==
    /\ Cardinality({w \in Writers : wpc[w] \in InLock}) <= 1
    /\ (~dropped /\ \A w \in Writers : wpc[w] = "idle") => val[Active] = V0 + edits

\* Two edit calls have returned, none is in progress, the value is V0 + 2.
C4_Witness ==
    /\ ~dropped
    /\ \A w \in Writers : wpc[w] = "idle"
    /\ edits = 2
    /\ val[Active] = V0 + 2

\* The place of a read: 0 outside read, 1..4 before each of its four steps
\* after the load of `latest`.
ReadRank(pc) ==
    CASE pc = "idle" -> 0 [] pc = "inc" -> 1 [] pc = "load" -> 2
      [] pc = "clone" -> 3 [] pc = "dec" -> 4

\* C5: read never waits: whatever the writers are doing, the next step of
\* every read in progress is enabled, and so is the first step of a read by
\* a thread that is not in one; and every step of a read takes it to its next
\* place, so that a read returns with its fifth step.
C5_ReadNeverWaits ==
    /\ [](\A r \in Readers :
            /\ (rpc[r] = "idle" /\ held[r] = NoObj /\ ~dropped) => ENABLED ReadLoadLatest(r)
            /\ rpc[r] = "inc" => ENABLED ReadFetchAdd(r)
            /\ rpc[r] = "load" => ENABLED ReadLoadPtr(r)
            /\ rpc[r] = "clone" => ENABLED ReadCloneArc(r)
            /\ rpc[r] = "dec" => ENABLED ReadFetchSub(r))
    /\ [][\A r \in Readers : rpc'[r] # rpc[r] =>
            ReadRank(rpc'[r]) = (ReadRank(rpc[r]) + 1) % 5]_vars

\* A read is at its counter increment while a writer holds the lock and
\* spins in the drain loop on a counter that is not zero.
C5_Witness ==
    \E r \in Readers, w \in Writers :
        rpc[r] = "inc" /\ wpc[w] = "wait" /\ lock = w /\ ~Drained(w)

\* C6: an edit that holds write_lock never waits for a reader: in the drain
\* loop its next step is enabled, wherever the readers are.
C6_EditNeverWaitsForReader ==
    \A w \in Writers : wpc[w] = "wait" => ENABLED EditWaitCnt(w)

\* C7: the value seen through an Arc that read returned never changes while
\* the Arc is held.
C7_HandleIsImmutable ==
    [][\A r \in Readers : (held[r] # NoObj /\ held'[r] = held[r]) =>
          /\ val'[held[r]] = val[held[r]]
          /\ fnst'[held[r]] = fnst[held[r]]]_vars

\* One reader still holds the initial value V0 in a cell the container has
\* replaced and released, another holds the value of the second edit.
C7_Witness ==
    \E r1, r2 \in Readers :
        /\ held[r1] # NoObj /\ val[held[r1]] = V0 /\ ~boxLive[held[r1]]
        /\ held[r2] # NoObj /\ val[held[r2]] = V0 + 2

\* Cell o is in a slot of the container.
InSlot(o) == ~dropped /\ \E s \in Slots : ptr[s] = o

\* Cell o is the clone an edit has made and not yet installed.
PrivateClone(o) == \E w \in Writers : wpc[w] \in {"fn", "fnrun", "swap"} /\ wnew[w] = o

\* C8 as stated: a cell is not destroyed while a reader holds an Arc on it,
\* and a cell that an edit or new has put in a slot, that is in neither slot
\* now and that no reader holds an Arc on is destroyed.
C8_DestroyedIffUnreferenced ==
    \A o \in 1..nobj :
        /\ Handles(o) # {} => strong[o] > 0
        /\ (~PrivateClone(o) /\ ~InSlot(o) /\ Handles(o) = {}) => strong[o] = 0

\* C8 amended: a cell is not destroyed while a reader holds an Arc on it, and
\* a cell whose Box the container has freed (the edit that swapped it out has
\* released it, a failed edit has dropped it, or the container was dropped)
\* and on which no reader holds an Arc is destroyed.
C8_DestroyedIffReleased ==
    \A o \in 1..nobj :
        /\ Handles(o) # {} => strong[o] > 0
        /\ (~boxLive[o] /\ Handles(o) = {}) => strong[o] = 0

\* A reader holds the only Arc on a cell the container has released, and
\* another released cell is destroyed.
C8_Witness ==
    /\ \E r \in Readers :
        held[r] # NoObj /\ ~boxLive[held[r]] /\ strong[held[r]] = 1
    /\ \E o \in 1..nobj : ~boxLive[o] /\ strong[o] = 0

\* The readers between fetch_add and fetch_sub on slot s.
Cloning(s) == {r \in Readers : rpc[r] \in {"load", "clone", "dec"} /\ rl[r] = s}

\* C9: after edit_fn has panicked the edit call has not returned, `latest`
\* and both slot pointers are what they were when the call took the lock,
\* the counters hold exactly the readers that are cloning, the cell edit_fn
\* was writing is in no slot, held by no reader and destroyed, and a read
\* begun afterwards returns the value that was active before the call.
C9_FailedEditChangesNothing ==
    poisoned =>
        /\ started > edits
        /\ latest = pre.latest
        /\ ptr = pre.ptr
        /\ \A s \in Slots : cnt[s] = Cardinality(Cloning(s))
        /\ \A o \in 1..nobj : fnst[o] = "running" =>
              /\ \A s \in Slots : ptr[s] # o
              /\ Handles(o) = {}
              /\ strong[o] = 0
        /\ \A r \in Readers : (rpois[r] /\ rpc[r] = "dec") =>
              val[arc[r]] = val[pre.ptr[pre.latest]]

\* After one edit that returned and one whose edit_fn panicked, a read begun
\* after the panic is about to return V0 + 1.
C9_Witness ==
    /\ poisoned
    /\ edits = 1
    /\ \E r \in Readers : rpois[r] /\ rpc[r] = "dec" /\ val[arc[r]] = V0 + 1

\* Cell o can be reached by a reader: it is in a slot, or a reader holds an
\* Arc on it.
Visible(o) == InSlot(o) \/ Handles(o) # {}

\* Cell o holds the initial value, or the result of one edit_fn that ran to
\* its end on a clone.
Complete(o) ==
    IF o <= 2 THEN fnst[o] = "none" /\ val[o] = V0
              ELSE fnst[o] = "done" /\ val[o] = from[o] + 1

\* C10: every cell in a slot and every cell a read has cloned an Arc on holds
\* the initial value or the result of exactly one completed edit_fn on a
\* private clone, and no step changes a cell that is reachable.
C10_NoTornReads ==
    /\ [](\A o \in 1..nobj : Visible(o) => Complete(o))
    /\ [][\A o \in 1..nobj : Visible(o) =>
            val'[o] = val[o] /\ fnst'[o] = fnst[o]]_vars

\* A reader has cloned an Arc on the result of an edit while the edit_fn of
\* the next edit is running on its private clone.
C10_Witness ==
    \E r \in Readers, w \in Writers :
        /\ rpc[r] = "dec" /\ arc[r] > 2
        /\ wpc[w] = "fnrun" /\ fnst[wnew[w]] = "running" /\ ~InSlot(wnew[w])

\* ---------------------------------------------------------------------- C11
\* C11: the reads of one thread never go backwards: with every edit_fn an
\* increment, a read() returns a value that is not older than the value the
\* same thread's previous read() returned.
C11_ReadsOfOneThreadInOrder ==
    [][\A r \in Readers : ReadReturns(r) => val[arc[r]] >= last[r]]_vars

\* ---------------------------------------------------------------------- C12
\* C12: no use after free: a reader about to clone through the slot pointer it
\* loaded finds the Box behind it not yet released, and when edit is about to
\* release the pointer it swapped out, no reader that loaded that pointer is
\* still to clone through it; readers with a stale indicator included.
C12_NoUseAfterFree ==
    /\ \A r \in Readers : rpc[r] = "clone" => boxLive[rp[r]]
    /\ \A w \in Writers : wpc[w] = "free" =>
          \A r \in Readers : ~(rpc[r] = "clone" /\ rp[r] = wold[w])
    /\ \A r \in Readers : rpc[r] = "dec" => arc[r] = rp[r]

\* A reader that loaded the indicator before an earlier edit flipped it has
\* loaded the pointer that an edit then swapped out and waits to release.
C12_Witness ==
    \E r \in Readers, w \in Writers :
        /\ rpc[r] = "clone" /\ rstart[r] = 0 /\ edits = 1
        /\ wpc[w] = "wait" /\ wold[w] = rp[r] /\ rl[r] = OldSlot(w)

\* ---------------------------------------------------------------------- C13
\* C13, as claimed: at the instant edit releases the pointer it swapped out of
\* a slot, that slot's hazard counter is zero.
C13_CounterZeroAtFree ==
    \A w \in Writers : wpc[w] = "free" => cnt[OldSlot(w)] = 0

\* C13, amended: from the exit of the drain loop to the release of the pointer
\* swapped out of a slot, no reader counted in that slot's hazard counter has
\* loaded or cloned through that pointer; the counter itself may be non-zero.
C13_CountedReadersHoldNewPointer ==
    \A w \in Writers : wpc[w] \in {"store", "free"} =>
        \A r \in Cloning(OldSlot(w)) : rp[r] # wold[w] /\ arc[r] # wold[w]

\* An edit is about to release the old pointer of a slot on which a reader has
\* announced itself and loaded the new pointer.
C13_Witness ==
    \E w \in Writers, r \in Readers :
        /\ wpc[w] = "free" /\ cnt[OldSlot(w)] > 0
        /\ rpc[r] = "clone" /\ rl[r] = OldSlot(w) /\ rp[r] = ptr[OldSlot(w)]

\* ---------------------------------------------------------------------- C14
\* The states of edit after edit_fn has returned.
AfterFn == {"swap", "wait", "store", "free", "unlock"}

\* C14: under fair scheduling of the readers in progress and of the writer, an
\* edit that holds the lock and whose edit_fn has returned leaves its drain
\* loop, flips the indicator and returns, whatever reads are begun meanwhile;
\* the lock is always released again, and an edit that calls lock() gets past
\* it (the bound on the edit calls and the container's drop end the waiting).
C14_DrainTerminates ==
    /\ \A w \in Writers :
          (wpc[w] = "wait") ~> (wpc[w] = "store" /\ cnt[OldSlot(w)] = 0)
    /\ \A w \in Writers : (wpc[w] = "store") ~> (latest = NewLatest(w))
    /\ \A w \in Writers : (wpc[w] \in AfterFn) ~> (wpc[w] = "idle")
    /\ (lock # NoWriter) ~> (lock = NoWriter)
    /\ \A w \in Writers :
          (wpc[w] = "idle" /\ started < MaxEdits /\ ~dropped)
              ~> (wpc[w] = "latest" \/ poisoned \/ started = MaxEdits \/ dropped)

\* An edit spins in its drain loop on a reader's announcement while another
\* reader is in a read that began after the swap.
C14_Witness ==
    \E w \in Writers, r1, r2 \in Readers :
        /\ wpc[w] = "wait" /\ ~Drained(w)
        /\ rpc[r1] # "idle" /\ rl[r1] = OldSlot(w)
        /\ rpc[r2] # "idle" /\ rl[r2] = LatestSlot(w) /\ rstart[r2] = 1 /\ edits = 1

\* ---------------------------------------------------------------------- C15
\* C15: the pointer of the slot the indicator names is never replaced; of the
\* container's atomics a step of edit changes only the inactive slot's pointer
\* (at its swap, to the new snapshot) or the indicator (at its store, after the
\* swap), and never a hazard counter.
C15_EditWritesOnlyInactiveSlot ==
    [][/\ ptr'[latest] = ptr[latest]
       /\ \A w \in Writers : wpc'[w] # wpc[w] =>
             /\ cnt' = cnt
             /\ ptr' # ptr =>
                   /\ wpc[w] = "swap" /\ wpc'[w] = "wait"
                   /\ ptr' = [ptr EXCEPT ![Other(latest)] = wnew[w]]
                   /\ latest' = latest
             /\ latest' # latest =>
                   /\ wpc[w] = "store" /\ wpc'[w] = "free"
                   /\ ptr' = ptr
                   /\ ptr[latest'] = wnew[w]]_vars

\* An edit has installed its snapshot in the inactive slot and not yet flipped
\* the indicator, while a reader is announced on the active slot.
C15_Witness ==
    \E w \in Writers, r \in Readers :
        /\ wpc[w] = "wait" /\ ptr[Other(latest)] = wnew[w] /\ edits = 1
        /\ rpc[r] = "clone" /\ rl[r] = latest /\ rp[r] = ptr[latest]

\* ---------------------------------------------------------------------- C16
\* No edit is between its pointer swap and its return.
NoEditPastSwap == \A w \in Writers : wpc[w] \notin {"wait", "store", "free", "unlock"}

\* The number of the edit before edit k; the initial value stands for edit 0.
PrevEdit(k) == IF k = 0 THEN 0 ELSE k - 1

\* C16: one slot is active; while no edit is between its swap and its return,
\* after k completed edits the active slot holds the result of edit k and the
\* inactive slot that of edit k - 1 (both the initial value for k = 0), in two
\* different cells; the pointer an edit swaps out is the result of edit k - 1.
C16_InactiveHoldsPrevious ==
    /\ latest \in Slots
    /\ (~dropped /\ NoEditPastSwap) =>
          /\ val[ptr[latest]] = V0 + edits
          /\ val[ptr[Other(latest)]] = V0 + PrevEdit(edits)
          /\ ptr[latest] # ptr[Other(latest)]
    /\ \A w \in Writers : wpc[w] \in {"wait", "store", "free"} =>
          val[wold[w]] = V0 + PrevEdit(edits)

\* Two edits have completed and the third has not swapped yet: the active slot
\* holds the second result and the inactive slot the first.
C16_Witness ==
    \E w \in Writers :
        /\ ~dropped /\ NoEditPastSwap /\ edits = 2 /\ wpc[w] = "swap"
        /\ val[ptr[latest]] = V0 + 2 /\ val[ptr[Other(latest)]] = V0 + 1

\* ---------------------------------------------------------------------- C17
\* C17: each slot's hazard counter is the number of readers between their
\* fetch_add and their fetch_sub on that slot: never below zero, never above
\* the number of reader threads, and zero when no read is in progress.
C17_CounterCountsReaders ==
    \A s \in Slots :
        /\ cnt[s] = Cardinality(Cloning(s))
        /\ cnt[s] >= 0
        /\ cnt[s] <= NumReaders
        /\ (\A r \in Readers : rpc[r] = "idle") => cnt[s] = 0

\* Both counters are raised at once: one reader is announced on the slot an
\* edit drains, another on the active slot.
C17_Witness ==
    \E w \in Writers :
        /\ wpc[w] = "wait" /\ cnt[RED] = 1 /\ cnt[GREEN] = 1
        /\ \A r \in Readers : rpc[r] \in {"load", "clone", "dec"}

\* ---------------------------------------------------------------------- C18
\* Cell o is the pointer an edit has swapped out of a slot and not yet released.
SwappedOut(o) == \E w \in Writers : wpc[w] \in {"wait", "store", "free"} /\ wold[w] = o

\* C18: the container releases its owning reference to every snapshot once.
\* No Box is released twice; until the drop the two slots point to two
\* different unreleased Boxes; an unreleased Box is in a slot, or is the clone
\* an edit has not installed yet, or is the pointer an edit swapped out and is
\* about to release, which is then in no slot and so is not released by the
\* drop as well; after the drop no Box is left unreleased.
C18_ReleasedExactlyOnce ==
    /\ ~ub
    /\ ~dropped =>
          /\ ptr[RED] # ptr[GREEN]
          /\ boxLive[ptr[RED]] /\ boxLive[ptr[GREEN]]
    /\ \A o \in 1..nobj :
          /\ SwappedOut(o) => boxLive[o] /\ ~InSlot(o)
          /\ boxLive[o] => InSlot(o) \/ PrivateClone(o) \/ SwappedOut(o)
          /\ dropped => ~boxLive[o]
    /\ \A w \in Writers : wpc[w] = "unlock" => ~boxLive[wold[w]]

\* The container has been dropped after two edits and a failed one: every
\* snapshot it created is released, and a reader still holds a handle.
C18_Witness ==
    /\ dropped /\ edits = 2 /\ poisoned /\ nobj = 5
    /\ \A o \in 1..nobj : ~boxLive[o]
    /\ \E r \in Readers : held[r] # NoObj /\ strong[held[r]] = 1

\* ---------------------------------------------------------------------- C19
\* C19: once edit_fn has panicked the lock stays poisoned and free and no edit
\* runs again: a later edit call ends at the lock acquisition and changes
\* neither the indicator, the slot pointers, the counters nor the heap;
\* no step changes the indicator, a slot pointer or a value, no clone is
\* made and no edit returns; a read begun after the panic returns the active
\* value.
C19_PoisonedLockStopsEdits ==
    /\ [](poisoned => lock = NoWriter /\ \A w \in Writers : wpc[w] = "idle")
    /\ [][poisoned =>
            /\ poisoned'
            /\ wpc' = wpc /\ edits' = edits
            /\ latest' = latest /\ ptr' = ptr
            /\ nobj' = nobj /\ val' = val /\ fnst' = fnst
            /\ started' # started =>
                  /\ cnt' = cnt /\ lock' = lock /\ dropped' = dropped
                  /\ strong' = strong /\ boxLive' = boxLive
                  /\ UNCHANGED rvars
            /\ \A r \in Readers : (ReadReturns(r) /\ rpois[r]) =>
                  val[arc[r]] = val[Active]]_vars

\* After one edit that returned and one whose edit_fn panicked, a further edit
\* call has failed at the lock, and a read begun after the panic is about to
\* return.
C19_Witness ==
    /\ poisoned /\ edits = 1 /\ started = 3 /\ ~dropped
    /\ \E r \in Readers : rpois[r] /\ rpc[r] = "dec" /\ arc[r] = Active

====
